---- MODULE Spec2Model ----
(***************************************************************************)
(* Model of the pdf-to-word-converter command line tool:                   *)
(*   src/src/utils/helpers.py   the filesystem and string helpers          *)
(*   src/src/cli/interface.py   the click commands convert and batch       *)
(* Python strings are sequences of one-character strings.  A Python value  *)
(* handed to a helper is a record [kind, s]: kind "str" for a str and      *)
(* "Path" for a pathlib.Path, because the helpers use str methods.         *)
(* A call's outcome is a record [exc, val]: exc is "None" when the call    *)
(* returned val, and otherwise the name of the exception it raised.        *)
(***************************************************************************)
EXTENDS Integers, Sequences, FiniteSets, TLC

VARIABLES
    call,        \* helpers: the last helper call, its arguments and outcome
    fs,          \* names of the regular files of the working/input directory
    cmd,         \* cli: the command invoked ("none", "convert", "batch")
    pc,          \* cli: position in the command
    input,       \* cli: convert's input_file argument (a name)
    output,      \* cli: convert's output_file / batch's output_dir argument
    pdf_files,   \* batch: list(input_path.glob("*.pdf"))
    idx,         \* batch: number of loop iterations completed
    successful,  \* batch: counter
    failed,      \* batch: counter
    calls,       \* converter.convert invocations, in order
    mkdirs,      \* directories handed to mkdir(parents=True, exist_ok=True)
    validated,   \* convert: what validate_file did ("notcalled" before)
    caught,      \* exception caught by the command's outer except ("None")
    exit_code    \* process exit code (NoExit while running)

vars == <<call, fs, cmd, pc, input, output, pdf_files, idx, successful,
          failed, calls, mkdirs, validated, caught, exit_code>>

cliVars == <<fs, cmd, pc, input, output, pdf_files, idx, successful,
             failed, calls, mkdirs, validated, caught, exit_code>>

-----------------------------------------------------------------------------
(* Python str primitives                                                    *)

Returned(v) == [exc |-> "None", val |-> v]
Raised(e) == [exc |-> e, val |-> <<>>]

\* str.lower() on one character, over the letters the inputs use
LowerChar(c) ==
    CASE c = "A" -> "a"
      [] c = "P" -> "p"
      [] c = "D" -> "d"
      [] c = "F" -> "f"
      [] OTHER -> c

\* str.lower()
Lower(s) == [i \in 1..Len(s) |-> LowerChar(s[i])]

\* str.endswith(suffix)
EndsWith(s, suffix) ==
    /\ Len(suffix) <= Len(s)
    /\ SubSeq(s, Len(s) - Len(suffix) + 1, Len(s)) = suffix

\* str.startswith(prefix)
StartsWith(s, prefix) ==
    /\ Len(prefix) <= Len(s)
    /\ SubSeq(s, 1, Len(prefix)) = prefix

\* str.rfind(c) + 1 for a one-character c: the 1-based index of the last c, 0 if none
RECURSIVE RFind(_, _, _)
RFind(s, c, i) ==
    IF i = 0 THEN 0
    ELSE IF s[i] = c THEN i
    ELSE RFind(s, c, i - 1)

LastIndex(s, c) == RFind(s, c, Len(s))

\* s[:n] and s[n:] with Python's 0-based n
Take(s, n) == SubSeq(s, 1, n)
Drop(s, n) == SubSeq(s, n + 1, Len(s))

-----------------------------------------------------------------------------
(* helpers.validate_file                                                    *)

DOT_PDF == <<".", "p", "d", "f">>
DOT_DOCX == <<".", "d", "o", "c", "x">>

StrArg(s) == [kind |-> "str", s |-> s]
PathArg(s) == [kind |-> "Path", s |-> s]

\* os.path.exists accepts str and os.PathLike alike
os_path_exists(files, p) == p.s \in files

\* file_path.lower(): a pathlib.Path has no attribute lower
HasLower(p) == p.kind = "str"

\* the comparison of validate_file made without lower()
validate_file_case_sensitive(files, file_path, extension) ==
    IF ~os_path_exists(files, file_path) THEN Returned("False")
    ELSE IF ~HasLower(file_path) THEN Raised("AttributeError")
    ELSE IF ~EndsWith(file_path.s, extension) THEN Returned("False")
    ELSE Returned("True")

validate_file(files, file_path, extension) ==
    IF ~os_path_exists(files, file_path) THEN Returned("False")
    ELSE IF ~HasLower(file_path) THEN Raised("AttributeError")
    ELSE IF ~EndsWith(Lower(file_path.s), Lower(extension)) THEN Returned("False")
    ELSE Returned("True")

-----------------------------------------------------------------------------
(* helpers.get_file_size                                                    *)
(* A byte count is written in base 1024, most significant digit first and   *)
(* without leading zeros (<<0>> is zero), so that counts of 1024^4 and more *)
(* are representable.  The float size_bytes is the pair (whole, frac): the  *)
(* base-1024 digits before and after the point.  Division by 1024.0 moves   *)
(* the point one digit to the left; it is exact below 2^53 and monotonic    *)
(* above, so the comparisons with 1024.0 come out as computed here.         *)

UNITS_without_GB == <<"B", "KB", "MB">>
UNITS == <<"B", "KB", "MB", "GB">>

\* size_bytes < 1024.0
LessThan1024(whole) == Len(whole) = 1

\* size_bytes /= 1024.0
DivWhole(whole) == IF Len(whole) = 1 THEN <<0>> ELSE Take(whole, Len(whole) - 1)
DivFrac(whole, frac) == <<whole[Len(whole)]>> \o frac

RECURSIVE FormatLoop(_, _, _)
FormatLoop(whole, frac, units) ==
    IF units = <<>> THEN [whole |-> whole, frac |-> frac, unit |-> "TB"]
    ELSE IF LessThan1024(whole) THEN [whole |-> whole, frac |-> frac, unit |-> Head(units)]
    ELSE FormatLoop(DivWhole(whole), DivFrac(whole, frac), Tail(units))

\* os.path.getsize raises OSError for a path that does not exist
get_file_size(exists, size) ==
    IF ~exists THEN Returned([whole |-> <<>>, frac |-> <<>>, unit |-> "Desconocido"])
    ELSE Returned(FormatLoop(size, <<>>, UNITS))

-----------------------------------------------------------------------------
(* helpers.generate_output_filename, with posixpath's dirname, basename,    *)
(* splitext and join                                                        *)

NoneArg == [kind |-> "None", s |-> <<>>]

\* truth value of an Optional[str]
Truthy(v) == v.kind # "None" /\ v.s # <<>>

\* s.rstrip('/')
RECURSIVE RStripSep(_)
RStripSep(s) ==
    IF s # <<>> /\ s[Len(s)] = "/" THEN RStripSep(Take(s, Len(s) - 1)) ELSE s

AllSep(s) == \A i \in 1..Len(s) : s[i] = "/"

os_path_dirname(p) ==
    LET head == Take(p, LastIndex(p, "/"))
    IN IF head # <<>> /\ ~AllSep(head) THEN RStripSep(head) ELSE head

os_path_basename(p) == Drop(p, LastIndex(p, "/"))

\* genericpath._splitext: leading dots of the last component are no extension
RECURSIVE SplitAt(_, _, _)
SplitAt(p, filenameIndex, dotIndex) ==
    IF filenameIndex >= dotIndex THEN <<p, <<>>>>
    ELSE IF p[filenameIndex + 1] # "." THEN <<Take(p, dotIndex), Drop(p, dotIndex)>>
    ELSE SplitAt(p, filenameIndex + 1, dotIndex)

os_path_splitext(p) ==
    LET sepIndex == LastIndex(p, "/") - 1
        dotIndex == LastIndex(p, ".") - 1
    IN IF dotIndex > sepIndex THEN SplitAt(p, sepIndex + 1, dotIndex)
       ELSE <<p, <<>>>>

os_path_join(a, b) ==
    IF StartsWith(b, <<"/">>) THEN b
    ELSE IF a = <<>> \/ EndsWith(a, <<"/">>) THEN a \o b
    ELSE a \o <<"/">> \o b

\* the default name built from the first extension instead of the last
RECURSIVE FirstIndexFrom(_, _, _)
FirstIndexFrom(s, c, i) ==
    IF i > Len(s) THEN 0
    ELSE IF s[i] = c THEN i
    ELSE FirstIndexFrom(s, c, i + 1)

input_name_first_dot(input_path) ==
    LET b == os_path_basename(input_path)
        i == FirstIndexFrom(b, ".", 2)
    IN IF i = 0 THEN b ELSE Take(b, i - 1)

input_name(input_path) == os_path_splitext(os_path_basename(input_path))[1]

generate_output_filename(input_path, output_path) ==
    IF Truthy(output_path) THEN Returned(output_path.s)
    ELSE Returned(os_path_join(os_path_dirname(input_path),
                               input_name(input_path) \o DOT_DOCX))

-----------------------------------------------------------------------------
(* helpers.sanitize_filename                                                *)

invalid_chars == <<"<", ">", ":", "\"", "/", "\\", "|", "?", "*">>

MAX_FILENAME == 200

\* characters str.strip() removes, among those the inputs use
Whitespace == {" ", "\t"}

\* filename.replace(char, '_')
Replace(s, char) == [i \in 1..Len(s) |-> IF s[i] = char THEN "_" ELSE s[i]]

RECURSIVE ReplaceAll(_, _)
ReplaceAll(s, chars) ==
    IF chars = <<>> THEN s ELSE ReplaceAll(Replace(s, Head(chars)), Tail(chars))

RECURSIVE LStrip(_)
LStrip(s) == IF s # <<>> /\ s[1] \in Whitespace THEN LStrip(Tail(s)) ELSE s

RECURSIVE RStrip(_)
RStrip(s) ==
    IF s # <<>> /\ s[Len(s)] \in Whitespace THEN RStrip(Take(s, Len(s) - 1)) ELSE s

Strip(s) == RStrip(LStrip(s))

Truncate(s) == IF Len(s) > MAX_FILENAME THEN Take(s, MAX_FILENAME) ELSE s

\* the local variable filename when line 298 is reached
sanitize_filename_local(filename) ==
    Truncate(Strip(ReplaceAll(filename, invalid_chars)))

\* line 298 returns the name filenamev, which is bound nowhere: the
\* evaluation raises NameError on every call, after the body has run
sanitize_filename(filename) ==
    LET local == sanitize_filename_local(filename)
    IN Raised("NameError")

-----------------------------------------------------------------------------
(* Inputs of the helper calls                                               *)

\* bounds of the enumerated inputs
MaxDigits == 6
MaxFiles == 3
MaxAffix == 2

Stems == { <<>>, <<"a">>, <<"a", ".", "b">>, <<".">>, <<".", "a">>, DOT_PDF }
Exts == { <<>>, DOT_PDF, <<".", "P", "D", "F">>, <<".", "P", "d", "f">>,
          <<".", "t", "x", "t">>, <<"p", "d", "f">>, <<".">>, DOT_DOCX }
Names == { st \o e : st \in Stems, e \in Exts }

FilePool == { <<"a">> \o DOT_PDF, <<"a", ".", "P", "D", "F">>,
              <<"a", ".", "t", "x", "t">>, <<"a", "p", "d", "f">> }

Dirs == { <<>>, <<"d">>, <<"/">>, <<"/", "d">>, <<"d", "/", "e">>, <<"d", ".", "x">>,
          <<"d", "/">>, <<"d", "/", "/">>, <<"/", "/">> }

\* the path of name in directory dir, as a caller writes it
InDir(dir, name) ==
    IF dir = <<>> THEN name
    ELSE IF dir[Len(dir)] = "/" THEN dir \o name
    ELSE dir \o <<"/">> \o name

\* byte counts: base-1024 numerals of 1..MaxDigits digits without a leading zero
DigitSamples == {0, 1, 1023}
Numerals(n) == { d \in [1..n -> DigitSamples] : n > 1 => d[1] # 0 }
Sizes == UNION { Numerals(n) : n \in 1..MaxDigits }

CliIdle ==
    /\ fs = {}
    /\ cmd = "none"
    /\ pc = "idle"
    /\ input = <<>>
    /\ output = <<>>
    /\ pdf_files = <<>>
    /\ idx = 0
    /\ successful = 0
    /\ failed = 0
    /\ calls = <<>>
    /\ mkdirs = <<>>
    /\ validated = "notcalled"
    /\ caught = "None"
    /\ exit_code = 0 - 1

NoCall == [fn |-> "none"]

InitHelpers == call = NoCall /\ CliIdle

\* ---- validate_file
CallValidateFile ==
    /\ call = NoCall
    /\ \E files \in SUBSET FilePool, name \in Names \cup FilePool,
       kind \in {"str", "Path"}, extension \in {DOT_PDF, <<".", "P", "D", "F">>, DOT_DOCX} :
        /\ call' = [fn |-> "validate_file", files |-> files,
                    file_path |-> [kind |-> kind, s |-> name],
                    extension |-> extension,
                    ret |-> validate_file(files, [kind |-> kind, s |-> name], extension)]
        /\ UNCHANGED cliVars

SpecValidate == InitHelpers /\ [][CallValidateFile]_vars

\* ---- get_file_size
CallGetFileSize ==
    /\ call = NoCall
    /\ \E exists \in BOOLEAN, size \in Sizes :
        /\ call' = [fn |-> "get_file_size", exists |-> exists,
                    size |-> IF exists THEN size ELSE <<>>,
                    ret |-> get_file_size(exists, size)]
        /\ UNCHANGED cliVars

SpecFileSize == InitHelpers /\ [][CallGetFileSize]_vars

\* ---- generate_output_filename
OutputArgs == { NoneArg, StrArg(<<>>), StrArg(<<"o">> \o DOT_DOCX),
                StrArg(<<"d", "/", "o">>) }

CallGenerateOutputFilename ==
    /\ call = NoCall
    /\ \E dir \in Dirs, st \in Stems, e \in Exts, output_path \in OutputArgs :
        /\ call' = [fn |-> "generate_output_filename",
                    dir |-> dir, stem |-> st, ext |-> e,
                    input_path |-> InDir(dir, st \o e),
                    output_path |-> output_path,
                    ret |-> generate_output_filename(InDir(dir, st \o e), output_path)]
        /\ UNCHANGED cliVars

SpecOutputName == InitHelpers /\ [][CallGenerateOutputFilename]_vars

\* ---- sanitize_filename
MaxPre == 1
PadLens == {0, 1} \cup (MAX_FILENAME - 3 .. MAX_FILENAME + 1)

SanChars == { invalid_chars[i] : i \in 1..Len(invalid_chars) } \cup {"a", " ", "\t"}
Affixes(n) == UNION { [1..k -> SanChars] : k \in 0..n }
Pad(k) == [i \in 1..k |-> "a"]

CallSanitizeFilename ==
    /\ call = NoCall
    /\ \E pre \in Affixes(MaxPre), k \in PadLens, suf \in Affixes(MaxAffix) :
        LET filename == pre \o Pad(k) \o suf
            ret1 == sanitize_filename(filename)
        IN /\ call' = [fn |-> "sanitize_filename", filename |-> filename,
                       local |-> sanitize_filename_local(filename),
                       ret |-> ret1,
                       \* sanitize_filename(sanitize_filename(filename))
                       ret2 |-> IF ret1.exc = "None" THEN sanitize_filename(ret1.val)
                                ELSE ret1]
           /\ UNCHANGED cliVars

SpecSanitize == InitHelpers /\ [][CallSanitizeFilename]_vars

-----------------------------------------------------------------------------
(* cli.interface: the commands convert and batch                            *)
(* core.converter.PDFToWordConverter is not part of the sources: a call of  *)
(* converter.convert returns a true value, returns a false value or raises  *)
(* an Exception, chosen by the environment.                                 *)

ConvertOutcomes == {"True", "False", "Raise"}

\* exit_code while the process runs
NoExit == 0 - 1
EXIT_OK == 0
EXIT_FAILURE == 1
EXIT_USAGE == 2

\* files the input directory (the working directory of convert) may hold
DirPool == { <<"a">> \o DOT_PDF, <<"b">> \o DOT_PDF, <<"a", ".", "b">> \o DOT_PDF,
             <<"a", ".", "P", "D", "F">>, <<"a", ".", "t", "x", "t">>,
             DOT_PDF, DOT_PDF \o DOT_PDF }

OutputFiles == { <<"o">> \o DOT_DOCX, <<"o", "u", "t", "/", "o">> \o DOT_DOCX }
OutputDirs == { <<"o", "u", "t">>, <<"o", "/", "p">> }

\* click.Path(exists=True, dir_okay=False): a missing input_file is a usage
\* error, which click reports with exit code 2 before the command body runs
ClickAcceptsInput(files, input_file) == input_file \in files

\* pathlib.PurePath.parent of a relative or absolute file path
PathParent(p) ==
    LET i == LastIndex(p, "/")
    IN IF i = 0 THEN <<".">>
       ELSE IF i = 1 THEN <<"/">>
       ELSE Take(p, i - 1)

\* pathlib.PurePath.stem: the name up to its last dot, unless that dot is
\* the first or the last character of the name
PathStem(name) ==
    LET i == LastIndex(name, ".") - 1
    IN IF 0 < i /\ i < Len(name) - 1 THEN Take(name, i) ELSE name

\* input_path.glob("*.pdf"): pathlib matches case-sensitively on POSIX and
\* lets * match a leading dot and the empty string
GlobMatches(name) == EndsWith(name, DOT_PDF)

GlobPdf(files) == { f \in files : GlobMatches(f) }

\* the orders in which the directory scan may list a set of names
Orders(S) ==
    { o \in [1..Cardinality(S) -> S] : \A i, j \in 1..Cardinality(S) : i # j => o[i] # o[j] }

\* output_path / f"{pdf_file.stem}.docx"
BatchOutputFile(output_path, pdf_file) ==
    output_path \o <<"/">> \o PathStem(pdf_file) \o DOT_DOCX

\* sys.exit(1) of the outer except clause of a command
OuterExceptExit_falls_through == EXIT_OK
OuterExceptExit == EXIT_FAILURE

\* except Exception around one file of the batch
InnerExceptCatchesNothing(outcome) == FALSE
InnerExceptCatches(outcome) == outcome = "Raise"

\* the counters after one file
CountSuccessful(n, outcome) == IF outcome = "True" THEN n + 1 ELSE n

CountFailed_else_only(n, outcome) == IF outcome = "False" THEN n + 1 ELSE n
CountFailed(n, outcome) == IF outcome \in {"False", "Raise"} THEN n + 1 ELSE n

Init ==
    /\ call = NoCall
    /\ fs \in { S \in SUBSET DirPool : Cardinality(S) <= MaxFiles }
    /\ cmd = "none"
    /\ pc = "start"
    /\ input = <<>>
    /\ output = <<>>
    /\ pdf_files = <<>>
    /\ idx = 0
    /\ successful = 0
    /\ failed = 0
    /\ calls = <<>>
    /\ mkdirs = <<>>
    /\ validated = "notcalled"
    /\ caught = "None"
    /\ exit_code = NoExit

\* click parses the arguments of convert
ConvertInvoke ==
    /\ pc = "start"
    /\ \E input_file \in DirPool, output_file \in OutputFiles :
        /\ cmd' = "convert"
        /\ input' = input_file
        /\ output' = output_file
        /\ IF ClickAcceptsInput(fs, input_file)
           THEN pc' = "body" /\ exit_code' = NoExit
           ELSE pc' = "done" /\ exit_code' = EXIT_USAGE
    /\ UNCHANGED <<call, fs, pdf_files, idx, successful, failed, calls, mkdirs,
                   validated, caught>>

\* the body of convert; the input file may have been removed since click's test
ConvertBody ==
    /\ pc = "body"
    /\ cmd = "convert"
    /\ \E files_now \in {fs, fs \ {input}}, mkdir_ok \in BOOLEAN, outcome \in ConvertOutcomes :
        LET v == validate_file(files_now, PathArg(input), DOT_PDF)
        IN /\ fs' = files_now
           /\ pc' = "done"
           /\ IF v.exc # "None"
              THEN /\ validated' = "raised"
                   /\ caught' = v.exc
                   /\ exit_code' = OuterExceptExit
                   /\ UNCHANGED <<mkdirs, calls>>
              ELSE IF v.val = "False"
              THEN /\ validated' = "False"
                   /\ caught' = "None"
                   /\ exit_code' = EXIT_FAILURE
                   /\ UNCHANGED <<mkdirs, calls>>
              ELSE /\ validated' = "True"
                   /\ mkdirs' = Append(mkdirs, PathParent(output))
                   /\ IF ~mkdir_ok
                      THEN /\ caught' = "OSError"
                           /\ exit_code' = OuterExceptExit
                           /\ UNCHANGED calls
                      ELSE /\ calls' = Append(calls, [input |-> input, output |-> output,
                                                      result |-> outcome])
                           /\ caught' = IF outcome = "Raise" THEN "Exception" ELSE "None"
                           /\ exit_code' = IF outcome = "Raise" THEN OuterExceptExit
                                           ELSE IF outcome = "False" THEN EXIT_FAILURE
                                           ELSE EXIT_OK
    /\ UNCHANGED <<call, cmd, input, output, pdf_files, idx, successful, failed>>

\* batch up to the loop: the glob, the early return, the output directory
BatchStart ==
    /\ pc = "start"
    /\ \E output_dir \in OutputDirs, found \in Orders(GlobPdf(fs)), mkdir_ok \in BOOLEAN :
        /\ cmd' = "batch"
        /\ output' = output_dir
        /\ pdf_files' = found
        /\ IF found = <<>>
           THEN /\ pc' = "done"
                /\ exit_code' = EXIT_OK
                /\ UNCHANGED <<mkdirs, caught>>
           ELSE /\ mkdirs' = Append(mkdirs, output_dir)
                /\ IF mkdir_ok
                   THEN pc' = "loop" /\ exit_code' = NoExit /\ caught' = "None"
                   ELSE pc' = "done" /\ exit_code' = OuterExceptExit /\ caught' = "OSError"
    /\ UNCHANGED <<call, fs, input, idx, successful, failed, calls, validated>>

\* one iteration of the loop over pdf_files
BatchFile ==
    /\ pc = "loop"
    /\ idx < Len(pdf_files)
    /\ \E outcome \in ConvertOutcomes :
        LET pdf_file == pdf_files[idx + 1]
        IN /\ calls' = Append(calls, [input |-> pdf_file,
                                      output |-> BatchOutputFile(output, pdf_file),
                                      result |-> outcome])
           /\ IF outcome = "Raise" /\ ~InnerExceptCatches(outcome)
              THEN /\ pc' = "done"
                   /\ caught' = "Exception"
                   /\ exit_code' = OuterExceptExit
                   /\ UNCHANGED <<idx, successful, failed>>
              ELSE /\ successful' = CountSuccessful(successful, outcome)
                   /\ failed' = CountFailed(failed, outcome)
                   /\ idx' = idx + 1
                   /\ UNCHANGED <<pc, caught, exit_code>>
    /\ UNCHANGED <<call, fs, cmd, input, output, pdf_files, mkdirs, validated>>

\* the summary after the loop; the command returns
BatchSummary ==
    /\ pc = "loop"
    /\ idx = Len(pdf_files)
    /\ pc' = "summary"
    /\ exit_code' = EXIT_OK
    /\ UNCHANGED <<call, fs, cmd, input, output, pdf_files, idx, successful, failed,
                   calls, mkdirs, validated, caught>>

Next == ConvertInvoke \/ ConvertBody \/ BatchStart \/ BatchFile \/ BatchSummary

Spec == Init /\ [][Next]_vars

-----------------------------------------------------------------------------
(* Properties                                                               *)

ConvertDone == cmd = "convert" /\ pc = "done"
ClickRejected == ConvertDone /\ validated = "notcalled"
ConverterSaidFalse == calls # <<>> /\ calls[Len(calls)].result = "False"

\* C1 as stated: the convert command ends with exit code 1 when validation of
\* the input file fails or an exception is raised while it runs, and with
\* exit code 0 in every other case.
C1_ExitOneOrZero ==
    ConvertDone =>
        exit_code = IF validated = "False" \/ caught # "None" THEN 1 ELSE 0

\* C1 amended: the convert command ends with exit code 2 when click rejects a
\* missing input_file before the body runs; once the body runs it ends with
\* exit code 1 when validate_file returns False, when an Exception is raised
\* in the body (each is caught by the outer except) or when converter.convert
\* returns a false value, and with exit code 0 in every other case.
C1_ExitCodes ==
    ConvertDone =>
        /\ exit_code \in {0, 1, 2}
        /\ exit_code = 2 <=> ClickRejected
        /\ exit_code = 1 <=>
              /\ ~ClickRejected
              /\ validated = "False" \/ caught # "None" \/ ConverterSaidFalse
        /\ validated = "raised" => caught # "None"

\* C1 witness: the body ran, an exception was raised in it and caught
C1_Witness == ConvertDone /\ validated = "raised" /\ caught # "None" /\ exit_code = 1

BatchEnded == cmd = "batch" /\ pc \in {"done", "summary"}
CallInputs == [i \in 1..Len(calls) |-> calls[i].input]

\* C2: in batch, converter.convert is invoked exactly once for every file of
\* the found list, in list order, and a raise or a False result for one file
\* never prevents the remaining files from being attempted.
C2_EveryFileAttemptedInOrder ==
    cmd = "batch" =>
        /\ Len(calls) <= Len(pdf_files)
        /\ CallInputs = SubSeq(pdf_files, 1, Len(calls))
        /\ pc = "loop" => Len(calls) = idx
        /\ (BatchEnded /\ calls # <<>>) => CallInputs = pdf_files

\* C2 witness: the batch ended after a file that raised and a file that
\* returned False were followed by further files
C2_Witness ==
    /\ BatchEnded
    /\ Len(calls) = 3
    /\ calls[1].result = "Raise"
    /\ calls[2].result = "False"
    /\ calls[3].result = "True"

SameIgnoringCase(a, b) ==
    /\ Len(a) = Len(b)
    /\ \A i \in 1..Len(a) : LowerChar(a[i]) = LowerChar(b[i])

\* C3: validate_file(file_path, extension), for a str file_path, returns True
\* if and only if file_path exists and ends with extension compared in lower
\* case, and False for a missing path whatever its extension.
C3_ValidateFile ==
    (call.fn = "validate_file" /\ call.file_path.kind = "str") =>
        LET s == call.file_path.s
            exists == s \in call.files
            ends == \E k \in 0..Len(s) : SameIgnoringCase(Drop(s, k), call.extension)
        IN /\ call.ret.exc = "None"
           /\ call.ret.val \in {"True", "False"}
           /\ call.ret.val = "True" <=> (exists /\ ends)
           /\ ~exists => call.ret.val = "False"

\* C3 witness: an existing upper-case .PDF name is accepted for '.pdf'
C3_Witness ==
    /\ call.fn = "validate_file"
    /\ call.file_path = StrArg(<<"a", ".", "P", "D", "F">>)
    /\ call.file_path.s \in call.files
    /\ call.extension = DOT_PDF
    /\ call.ret = Returned("True")

InvalidSet == { invalid_chars[i] : i \in 1..Len(invalid_chars) }

\* C4: sanitize_filename returns the input with each of the nine characters
\* replaced by an underscore, trimmed, then cut to its first 200 characters;
\* the returned string holds none of the nine characters and at most 200.
C4_SanitizeReturns ==
    call.fn = "sanitize_filename" =>
        /\ call.ret.exc = "None"
        /\ call.ret.val = Truncate(Strip(ReplaceAll(call.filename, invalid_chars)))
        /\ Len(call.ret.val) <= 200
        /\ \A i \in 1..Len(call.ret.val) : call.ret.val[i] \notin InvalidSet

\* C5: get_file_size divides the byte count by 1024 once per unit step and
\* prints B below 1024, KB below 1024^2, MB below 1024^3, GB below 1024^4 and
\* TB from 1024^4 upward.  A count of n base-1024 digits is below 1024^n and
\* at least 1024^(n-1).
C5_FileSizeUnits ==
    (call.fn = "get_file_size" /\ call.exists) =>
        LET n == Len(call.size)
            r == call.ret.val
        IN /\ call.ret.exc = "None"
           /\ r.unit = CASE n = 1 -> "B"
                         [] n = 2 -> "KB"
                         [] n = 3 -> "MB"
                         [] n = 4 -> "GB"
                         [] OTHER -> "TB"
           /\ Len(r.frac) = (IF n <= 4 THEN n - 1 ELSE 4)
           /\ r.whole \o r.frac = call.size

\* C5 witness: a count of 1024^5 or more is printed in TB
C5_Witness ==
    /\ call.fn = "get_file_size"
    /\ call.exists
    /\ Len(call.size) = 6
    /\ call.ret.val.unit = "TB"
    /\ Len(call.ret.val.whole) = 2

HasNonDot(s) == \E i \in 1..Len(s) : s[i] # "."
OnlyLeadingDots(s) == \A i \in 1..Len(s) : s[i] = "." => \A j \in 1..i : s[j] = "."
IsExtension(e) == Len(e) >= 1 /\ e[1] = "." /\ \A i \in 2..Len(e) : e[i] \notin {".", "/"}
\* the directory as named by the caller, without trailing separators
NormalDir(dir) == IF AllSep(dir) THEN dir ELSE RStripSep(dir)

\* C6: generate_output_filename returns output_path when one is given, and
\* otherwise the input's directory joined with the base name whose last
\* extension is replaced by '.docx' (a name of leading dots only plus letters
\* has no extension; a bare name stays bare).
C6_OutputName ==
    call.fn = "generate_output_filename" =>
        LET given == call.output_path.kind = "str" /\ call.output_path.s # <<>>
            name == call.stem \o call.ext
        IN /\ call.ret.exc = "None"
           /\ given => call.ret.val = call.output_path.s
           /\ (~given /\ IsExtension(call.ext) /\ HasNonDot(call.stem)) =>
                 call.ret.val = InDir(NormalDir(call.dir), call.stem \o DOT_DOCX)
           /\ (~given /\ OnlyLeadingDots(name)) =>
                 call.ret.val = InDir(NormalDir(call.dir), name \o DOT_DOCX)
           /\ (~given /\ call.dir = <<>>) => \A i \in 1..Len(call.ret.val) : call.ret.val[i] # "/"

\* C6 witness: no output given, a name with two extensions in a directory
C6_Witness ==
    /\ call.fn = "generate_output_filename"
    /\ call.output_path = NoneArg
    /\ call.input_path = <<"d", "/", "a", ".", "b">> \o DOT_PDF
    /\ call.ret = Returned(<<"d", "/", "a", ".", "b">> \o DOT_DOCX)

\* C7: batch passes each file of the directory whose name ends in .pdf to the
\* converter with the output path <output_dir>/<stem>.docx, and two different
\* input files of one batch never get the same output path.
C7_OwnOutputPerFile ==
    (cmd = "batch" /\ pc = "summary") =>
        /\ \A f \in fs : EndsWith(f, DOT_PDF) =>
              \E i \in 1..Len(calls) :
                  /\ calls[i].input = f
                  /\ calls[i].output = output \o <<"/">> \o PathStem(f) \o DOT_DOCX
        /\ \A i, j \in 1..Len(calls) :
              calls[i].input # calls[j].input => calls[i].output # calls[j].output

\* C8: in convert, whenever the input file exists and its name ends in .pdf in
\* any letter case, validation passes and converter.convert is invoked exactly
\* once with the input and output path after the output's parent directory
\* has been created; the command does not exit before the converter is called.
C8_ValidPdfReachesConverter ==
    (ConvertDone /\ input \in fs /\ EndsWith(Lower(input), DOT_PDF)) =>
        /\ validated = "True"
        /\ mkdirs = <<PathParent(output)>>
        /\ Len(calls) = 1
        /\ calls[1].input = input
        /\ calls[1].output = output

RECURSIVE CountResults(_, _)
CountResults(cs, results) ==
    IF cs = <<>> THEN 0
    ELSE (IF Head(cs).result \in results THEN 1 ELSE 0) + CountResults(Tail(cs), results)

\* C9: in batch, after the i-th file has been processed successful + failed
\* equals i, successful counts the files whose conversion returned a true
\* value and failed those that returned a false value or raised; when the
\* summary is printed, successful + failed equals the number of files found.
C9_CountersAddUp ==
    (cmd = "batch" /\ pc \in {"loop", "summary"}) =>
        /\ successful + failed = idx
        /\ idx = Len(calls)
        /\ successful = CountResults(calls, {"True"})
        /\ failed = CountResults(calls, {"False", "Raise"})
        /\ pc = "summary" => successful + failed = Len(pdf_files)

\* C9 witness: the summary after one success, one False and one raise
C9_Witness ==
    /\ cmd = "batch"
    /\ pc = "summary"
    /\ successful = 1
    /\ failed = 2
    /\ CountResults(calls, {"Raise"}) = 1

\* C10: sanitize_filename is idempotent, and its result never begins or ends
\* with whitespace, also when the input is cut to 200 characters.
C10_SanitizeIdempotent ==
    call.fn = "sanitize_filename" =>
        /\ call.ret.exc = "None"
        /\ call.ret2 = call.ret
        /\ call.ret.val # <<>> =>
              /\ call.ret.val[1] \notin Whitespace
              /\ call.ret.val[Len(call.ret.val)] \notin Whitespace

\* The value of the local variable filename before line 298 satisfies C4's
\* description of the result ...
LocalIsSanitized ==
    call.fn = "sanitize_filename" =>
        /\ Len(call.local) <= MAX_FILENAME
        /\ \A i \in 1..Len(call.local) : call.local[i] \notin InvalidSet

\* ... but is not a fixed point of the body when the cut leaves whitespace
\* at position 200 (violated, for example, by 199 letters, a blank, a letter)
LocalIsFixedPoint ==
    call.fn = "sanitize_filename" =>
        sanitize_filename_local(call.local) = call.local

====
